---- MODULE Spec2Model ----
(***************************************************************************)
(* A model of the realtime relay of app/backend/rtmt.py (RTMiddleTier) and *)
(* of the two tools app/backend/ragtools.py registers into it.             *)
(*                                                                         *)
(* One RTMiddleTier object is built by create_app and its bound method     *)
(* _websocket_handler serves every client connection, so the attributes    *)
(* system_message, voice_choice, tools and last_user_message are one       *)
(* value each, while sockets and the two forwarding loops are per          *)
(* connection.                                                             *)
(*                                                                         *)
(* Encoding of JSON: an object is a function from its keys to values (a    *)
(* key is present iff it is in the DOMAIN); a value whose JSON type the    *)
(* code tests or relies on is tagged [kind, obj].  A payload (the text of  *)
(* a frame) is [kind, raw, doc]: kind says what json.loads makes of it,    *)
(* raw is the text's layout (or the text itself when it is no JSON), doc   *)
(* the decoded object.  Two payloads are the same bytes iff equal.         *)
(***************************************************************************)
EXTENDS Naturals, Sequences, FiniteSets, TLC

\* ------------------------------------------------------------- bounds
\* frames read from the client socket, per connection
MaxClientMsgs == 2
\* frames read from the upstream socket, per connection
MaxServerMsgs == 2

\* frames read from either socket of a connection when two are served
MaxTwoMsgs == 1

\* ------------------------------------------------------------- values
Conns == {"A", "B"}

\* Python's None
NONE == "<None>"
\* the empty JSON object {}
Emp == [k \in {} |-> ""]

Obj(f) == [kind |-> "dict", obj |-> f]
NonObj(k) == [kind |-> k, obj |-> Emp]

\* dict.get(key, default)
Get(f, key, default) == IF key \in DOMAIN f THEN f[key] ELSE default
\* d[key] = value
Put(f, key, value) == [k \in DOMAIN f \cup {key} |-> IF k = key THEN value ELSE f[k]]

\* Truthy taking everything for true, None and "" included
Truthy_everything(x) == TRUE

\* Python truthiness of a string-or-None value
Truthy(x) == x \notin {NONE, ""}

\* the text of a frame, by layout
Text(layout, doc) == [kind |-> "object", raw |-> layout, doc |-> doc]
\* a text json.loads rejects (raw is the text itself)
Garbage(s) == [kind |-> "invalid", raw |-> s, doc |-> Emp]
\* a text json.loads decodes to something that is no object
Scalar(s) == [kind |-> "nonobject", raw |-> s, doc |-> Emp]
\* no payload (Python's None as a return value)
NoData == [kind |-> "none", raw |-> "", doc |-> Emp]

\* NonEmpty with the test left out: whatever was returned is sent
NonEmpty_untested(data) == TRUE

\* `if updated:` -- None and the empty string are falsy
NonEmpty(data) == data # NoData /\ data # Garbage("")

\* json.dumps(message): the object in the encoder's own layout
json_dumps(doc) == Text("dumps", doc)

Frame(t, data) == [type |-> t, data |-> data]

\* ------------------------------------------------- client-origin frames
ContentList(parts) == [kind |-> "list", parts |-> parts, obj |-> Emp]
ContentDict(f) == [kind |-> "dict", parts |-> <<>>, obj |-> f]
ContentStr == [kind |-> "str", parts |-> <<>>, obj |-> Emp]

\* {"type":"conversation.item.create","item":{"type":t,"content":c}}
ItemCreate(layout, t, c) ==
    Text(layout, [type |-> "conversation.item.create",
                  item |-> Obj([type |-> t, content |-> c])])

\* {"type":"session.update","event_id":"e1","session":s}
SessionUpdate(s) ==
    Text("compact", [type |-> "session.update", event_id |-> "e1", session |-> s])

Schema(n) == [type |-> "function", name |-> n]

UserTexts == {"q1", "q2"}

\* messages that carry a user text, as a list or as a single object
UserMsgs ==
    {ItemCreate("compact", "message", ContentList(<<Obj([type |-> "input_text", text |-> t])>>)) : t \in UserTexts}
    \cup {ItemCreate("spaced", "message", ContentDict([type |-> "input_text", text |-> "q1"]))}

\* a message item whose content holds no text (audio only)
AudioMsg == ItemCreate("compact", "message", ContentList(<<Obj([type |-> "input_audio"])>>))

\* items of other shapes
OddItems ==
    { ItemCreate("compact", "message", ContentList(<<>>)),
      ItemCreate("compact", "message", ContentStr),
      ItemCreate("compact", "message", ContentList(<<NonObj("str")>>)),
      ItemCreate("compact", "function_call_output", ContentStr),
      Text("compact", [type |-> "conversation.item.create", item |-> NonObj("str")]),
      Text("compact", [type |-> "conversation.item.create"]) }

ClientSession ==
    Obj([instructions |-> "client instructions", voice |-> "echo",
         tools |-> <<Schema("client_tool")>>, tool_choice |-> "none",
         temperature |-> "0.8"])

SessionMsgs ==
    { SessionUpdate(ClientSession),
      SessionUpdate(Obj([tools |-> <<>>, tool_choice |-> "none"])),
      SessionUpdate(Obj(Emp)),
      SessionUpdate(NonObj("str")),
      Text("compact", [type |-> "session.update"]) }

OtherClientMsgs ==
    { Text("compact", [type |-> "input_audio_buffer.append", audio |-> "AAAA"]),
      Text("compact", [event_id |-> "e1"]),
      Garbage("not json"), Garbage(""), Scalar("[1]") }

ClientTexts == UserMsgs \cup {AudioMsg} \cup OddItems \cup SessionMsgs \cup OtherClientMsgs

ClientFrames == {Frame("TEXT", d) : d \in ClientTexts} \cup {Frame("BINARY", Garbage("bytes"))}

\* ----------------------------------------------- upstream-origin frames
\* {"type":"response.output_item.done","item":i}
ItemDone(i) == Text("compact", [type |-> "response.output_item.done", item |-> i])

FunctionCall(name, arguments, call_id) ==
    ItemDone(Obj([type |-> "function_call", name |-> name,
                  arguments |-> arguments, call_id |-> call_id]))

\* the arguments strings the model may emit
ArgQuery == Text("compact", [query |-> "stale"])
ArgSources(ids) == Text("compact", [sources |-> ids])
ArgMalformed == Garbage("{query:")
ArgList == Scalar("[]")

SearchCalls ==
    {FunctionCall("search", a, "call_1") : a \in {ArgQuery, ArgMalformed, ArgList}}

GroundingCalls ==
    {FunctionCall("report_grounding", a, "call_2") :
        a \in {ArgSources(<<"doc1">>), ArgSources(<<"bad id">>), ArgSources(<<"<int>">>),
               ArgSources(<<>>), ArgList, ArgMalformed}}

OddCalls ==
    { FunctionCall("unknown_tool", ArgQuery, "call_1"),
      ItemDone(Obj([type |-> "function_call", arguments |-> ArgQuery, call_id |-> "call_1"])),
      ItemDone(Obj([type |-> "function_call", name |-> "report_grounding", call_id |-> "call_1"])),
      ItemDone(Obj([type |-> "function_call", name |-> "report_grounding", arguments |-> ArgSources(<<>>)])),
      ItemDone(Obj([type |-> "message"])),
      ItemDone(NonObj("str")),
      Text("compact", [type |-> "response.output_item.done"]) }

GatedMsgs ==
    { Text("compact", [type |-> "conversation.item.created", item |-> Obj([type |-> "message"])]),
      Text("compact", [type |-> "response.done"]) }

OtherServerMsgs ==
    { Text("compact", [type |-> "response.audio.delta", delta |-> "AAAA"]),
      Text("compact", [event_id |-> "e1"]),
      Garbage("not json"), Garbage(""), Scalar("[1]") }

ServerTexts == SearchCalls \cup GroundingCalls \cup OddCalls \cup GatedMsgs \cup OtherServerMsgs

ServerFrames == {Frame("TEXT", d) : d \in ServerTexts} \cup {Frame("BINARY", Garbage("bytes"))}


\* ------------------------------------------------ tool result and tools
\* documents a result list holds at most
MaxDocs == 2

\* Python values a ToolResult carries.  A str is its sequence of characters
\* (a run of letters is one element); a list holds values, a dict holds
\* (key, value) pairs in insertion order, keys being strs.
PyNone == [t |-> "none", s |-> <<>>, items |-> <<>>]
PyStr(chars) == [t |-> "str", s |-> chars, items |-> <<>>]
PyList(values) == [t |-> "list", s |-> <<>>, items |-> values]
PyDict(pairs) == [t |-> "dict", s |-> <<>>, items |-> pairs]
Pair(key, value) == [k |-> <<key>>, v |-> value]

\* the payloads the handlers build: {key: val}, a string, None
Dict(key, val) == PyDict(<<Pair(key, val)>>)
Str(val) == PyStr(<<val>>)
Nothing == PyNone

\* {"doc_id": doc.get(identifier_field), "content": doc.get(content_field)}
Doc(id, content) == PyDict(<<Pair("doc_id", id), Pair("content", content)>>)
\* the documents a search yields, n of them
Docs(n) == PyList([i \in 1..n |-> Doc(Str("doc1"), IF i = 1 THEN Str("chunk") ELSE PyNone)])

\* json.dumps(value): the text, a str, with the separators ", " and ": "
RECURSIVE dumps(_)
dumps(value) ==
    LET Sep(i) == IF i = 1 THEN <<>> ELSE <<",", " ">>
        Escaped[i \in 0..Len(value.s)] ==
            IF i = 0 THEN <<>>
            ELSE Escaped[i - 1] \o (IF value.s[i] \in {"\"", "\\"}
                                    THEN <<"\\", value.s[i]>> ELSE <<value.s[i]>>)
        Key(chars) == <<"\"">> \o chars \o <<"\"">>
        Elems[i \in 0..Len(value.items)] ==
            IF i = 0 THEN <<>> ELSE Elems[i - 1] \o Sep(i) \o dumps(value.items[i])
        Members[i \in 0..Len(value.items)] ==
            IF i = 0 THEN <<>>
            ELSE Members[i - 1] \o Sep(i) \o Key(value.items[i].k)
                    \o <<":", " ">> \o dumps(value.items[i].v)
    IN CASE value.t = "none" -> <<"null">>
         [] value.t = "str" -> <<"\"">> \o Escaped[Len(value.s)] \o <<"\"">>
         [] value.t = "list" -> <<"[">> \o Elems[Len(value.items)] \o <<"]">>
         [] value.t = "dict" -> <<"{">> \o Members[Len(value.items)] \o <<"}">>

\* json.loads(text): a parser of the same grammar
Parsed(value, next) == [ok |-> TRUE, val |-> value, next |-> next]
Unparsed == [ok |-> FALSE, val |-> PyNone, next |-> 0]

\* the first position from i on that holds no blank
SkipBlanks(text, i) ==
    CHOOSE j \in i..(Len(text) + 1) :
        /\ \A k \in i..(j - 1) : text[k] = " "
        /\ j > Len(text) \/ text[j] # " "

\* d[key] = value while the object is read: a repeated key keeps its place
SetPair(pairs, key, value) ==
    IF \E n \in 1..Len(pairs) : pairs[n].k = key
    THEN [n \in 1..Len(pairs) |-> IF pairs[n].k = key THEN [k |-> key, v |-> value] ELSE pairs[n]]
    ELSE Append(pairs, [k |-> key, v |-> value])

\* a string from behind its opening quote, the characters read so far
\* being done: up to the closing quote, a backslash escaping what follows
RECURSIVE ScanString(_, _, _)
ScanString(text, i, done) ==
    IF i > Len(text) THEN Unparsed
    ELSE IF text[i] = "\"" THEN Parsed(PyStr(done), i + 1)
    ELSE IF text[i] # "\\" THEN ScanString(text, i + 1, Append(done, text[i]))
    ELSE IF i + 1 > Len(text) \/ text[i + 1] \notin {"\"", "\\"} THEN Unparsed
    ELSE ScanString(text, i + 2, Append(done, text[i + 1]))

ParseString(text, i) == ScanString(text, i + 1, <<>>)

RECURSIVE ParseValue(_, _), ParseElems(_, _, _), ParseMembers(_, _, _)
ParseValue(text, from) ==
    LET i == SkipBlanks(text, from)
    IN IF i > Len(text) THEN Unparsed
       ELSE CASE text[i] = "null" -> Parsed(PyNone, i + 1)
              [] text[i] = "\"" -> ParseString(text, i)
              [] text[i] = "[" -> ParseElems(text, i + 1, <<>>)
              [] text[i] = "{" -> ParseMembers(text, i + 1, <<>>)
              [] OTHER -> Unparsed

\* the elements of an array, those read so far being done
ParseElems(text, from, done) ==
    LET i == SkipBlanks(text, from)
    IN IF i > Len(text) THEN Unparsed
       ELSE IF text[i] = "]" /\ done = <<>> THEN Parsed(PyList(<<>>), i + 1)
       ELSE LET e == ParseValue(text, i)
                j == SkipBlanks(text, e.next)
            IN IF ~e.ok \/ j > Len(text) THEN Unparsed
               ELSE IF text[j] = "," THEN ParseElems(text, j + 1, Append(done, e.val))
               ELSE IF text[j] = "]" THEN Parsed(PyList(Append(done, e.val)), j + 1)
               ELSE Unparsed

\* the members of an object, those read so far being done
ParseMembers(text, from, done) ==
    LET i == SkipBlanks(text, from)
    IN IF i > Len(text) THEN Unparsed
       ELSE IF text[i] = "}" /\ done = <<>> THEN Parsed(PyDict(<<>>), i + 1)
       ELSE IF text[i] # "\"" THEN Unparsed
       ELSE LET key == ParseString(text, i)
                c == SkipBlanks(text, key.next)
            IN IF ~key.ok \/ c > Len(text) THEN Unparsed
               ELSE IF text[c] # ":" THEN Unparsed
               ELSE LET m == ParseValue(text, c + 1)
                        j == SkipBlanks(text, m.next)
                        all == SetPair(done, key.val.s, m.val)
                    IN IF ~m.ok \/ j > Len(text) THEN Unparsed
                       ELSE IF text[j] = "," THEN ParseMembers(text, j + 1, all)
                       ELSE IF text[j] = "}" THEN Parsed(PyDict(all), j + 1)
                       ELSE Unparsed

\* json.loads(text): the value, or a JSONDecodeError
Decoded(value) == [ok |-> TRUE, val |-> value]
JSONDecodeError == [ok |-> FALSE, val |-> PyNone]
loads(text) ==
    LET r == ParseValue(text, 1)
    IN IF r.ok /\ SkipBlanks(text, r.next) > Len(text) THEN Decoded(r.val) ELSE JSONDecodeError

ToolResult(text, dest) == [text |-> text, destination |-> dest]

\* to_text with json.dumps applied to whatever is not None, a str included
to_text_dumps_str(result) ==
    IF result.text = PyNone THEN <<>> ELSE dumps(result.text)

\* ToolResult.to_text: "" for None, the string itself, else its JSON text
to_text(result) ==
    IF result.text = PyNone THEN <<>>
    ELSE IF result.text.t = "str" THEN result.text.s
    ELSE dumps(result.text)

Tool(target, schema) == [target |-> target, schema |-> schema]

\* the registry is a dict in insertion order: a sequence of (key, value)
\* Keys of a registry that lost its last entry
Keys_drops_last(registry) == {registry[i].key : i \in 1..(Len(registry) - 1)}

\* self.tools.keys()
Keys(registry) == {registry[i].key : i \in 1..Len(registry)}
Lookup(registry, name) == (CHOOSE i \in 1..Len(registry) : registry[i].key = name)
Value(registry, name) == registry[Lookup(registry, name)].value
\* registry[name] = tool
Register(registry, name, tool) ==
    IF name \in Keys(registry)
    THEN [registry EXCEPT ![Lookup(registry, name)].value = tool]
    ELSE Append(registry, [key |-> name, value |-> tool])

attach_rag_tools(registry) ==
    Register(Register(registry, "search", Tool("search_tool", Schema("search"))),
             "report_grounding", Tool("report_grounding_tool", Schema("report_grounding")))

\* Schemas with the last registered tool left out
Schemas_skips_last(registry) == [i \in 1..(Len(registry) - 1) |-> registry[i].value.schema]

\* [t.schema for t in self.tools.values()]
Schemas(registry) == [i \in 1..Len(registry) |-> registry[i].value.schema]

\* safe_json_loads returning None, not {}, for a text that does not parse
safe_json_loads_none(s) ==
    IF s.kind = "object" THEN Obj(s.doc)
    ELSE IF s.kind = "nonobject" THEN NonObj("list")
    ELSE NonObj("none")

\* safe_json_loads: the decoded value, {} when the text does not parse
safe_json_loads(s) ==
    IF s.kind = "object" THEN Obj(s.doc)
    ELSE IF s.kind = "nonobject" THEN NonObj("list")
    ELSE Obj(Emp)

\* what a handler does up to its first await: it returns a result, raises,
\* or goes on to await search_client.search
Now(result) == [step |-> "return", result |-> result]
Raises == [step |-> "raise", result |-> ToolResult(Nothing, "TO_SERVER")]
Awaits == [step |-> "await", result |-> ToolResult(Nothing, "TO_SERVER")]

\* _search_tool up to `await search_client.search`
search_tool(args) ==
    LET query == IF args.kind = "dict" THEN Get(args.obj, "query", NONE) ELSE NONE
    IN IF ~Truthy(query)
       THEN Now(ToolResult(Dict("error", Str("Missing 'query'")), "TO_SERVER"))
       ELSE Awaits

\* KEY_PATTERN.match(s)
KeyMatches(s) == s \in {"doc1", "doc2"}

\* _report_grounding_tool up to `await search_client.search`
report_grounding_tool(args) ==
    LET sources == IF args.kind = "dict" THEN Get(args.obj, "sources", <<>>) ELSE <<>>
    IN IF sources = <<>>
       THEN Now(ToolResult(Dict("sources", PyList(<<>>)), "TO_CLIENT"))
       ELSE IF \E i \in 1..Len(sources) : sources[i] = "<int>"
       THEN Raises
       ELSE IF SelectSeq(sources, KeyMatches) = <<>>
       THEN Now(ToolResult(Dict("sources", PyList(<<>>)), "TO_CLIENT"))
       ELSE Awaits

\* tool.target(args), by the handler the registry entry binds
Target(tool, args) ==
    IF tool.target = "search_tool" THEN search_tool(args) ELSE report_grounding_tool(args)

\* how the awaited search can end: documents, search() raising, or the
\* iteration over the results raising
SearchOutcomes == {"docs", "search_error", "iteration_error"}

\* the handler from its await on
Resume(tool, outcome) ==
    IF outcome = "iteration_error" THEN Raises
    ELSE IF tool.target = "search_tool"
    THEN IF outcome = "search_error"
         THEN Now(ToolResult(Dict("error", Str("str(e)")), "TO_SERVER"))
         ELSE Now(ToolResult(Dict("results", Docs(1)), "TO_SERVER"))
    ELSE IF outcome = "search_error"
         THEN Now(ToolResult(Dict("sources", PyList(<<>>)), "TO_CLIENT"))
         ELSE Now(ToolResult(Dict("sources", Docs(1)), "TO_CLIENT"))

\* ------------------------------------------------------- client -> AI
\* Ret with last_user_message reset on the way out
Ret_resets(updated, lum) == [raised |-> FALSE, updated |-> updated, lum |-> NONE, wrote |-> FALSE]

\* `return updated` with last_user_message not assigned
Ret(updated, lum) == [raised |-> FALSE, updated |-> updated, lum |-> lum, wrote |-> FALSE]
Recorded(updated, lum) == [raised |-> FALSE, updated |-> updated, lum |-> lum, wrote |-> TRUE]
Raise(lum) == [raised |-> TRUE, updated |-> NoData, lum |-> lum, wrote |-> FALSE]

\* SetIfConfigured with the test left out: a value that is not configured
\* is written as the empty string
SetIfConfigured_forced(session, key, value) ==
    Put(session, key, IF value = NONE THEN "" ELSE value)

\* `if self.system_message: session["instructions"] = self.system_message`
\* and `if self.voice_choice: session["voice"] = self.voice_choice`
SetIfConfigured(session, key, value) ==
    IF Truthy(value) THEN Put(session, key, value) ELSE session

\* RewriteSession with setdefault in place of assignment for the
\* instructions and the voice: a value of the client's is kept
RewriteSession_setdefault(session, sm, vc, registry) ==
    LET s1 == IF Truthy(sm) /\ "instructions" \notin DOMAIN session
              THEN Put(session, "instructions", sm) ELSE session
        s2 == Put(s1, "tools", Schemas(registry))
        s3 == Put(s2, "tool_choice", "auto")
    IN IF Truthy(vc) /\ "voice" \notin DOMAIN session THEN Put(s3, "voice", vc) ELSE s3

\* the session object of a session.update, rewritten
RewriteSession(session, sm, vc, registry) ==
    LET s1 == SetIfConfigured(session, "instructions", sm)
        s2 == Put(s1, "tools", Schemas(registry))
        s3 == Put(s2, "tool_choice", "auto")
    IN SetIfConfigured(s3, "voice", vc)

\* TextIn reading the part's type instead of its text
TextIn_reads_type(part) == Get(part, "type", NONE)

\* content[0].get("text") and content.get("text")
TextIn(part) == Get(part, "text", NONE)

\* _process_message_to_server: what it returns, whether it raises, and
\* last_user_message after it
process_message_to_server(data, sm, vc, registry, lum) ==
    IF data.kind = "invalid" THEN Ret(data, lum)
    ELSE IF data.kind = "nonobject" THEN Raise(lum)
    ELSE LET message == data.doc
             msg_type == Get(message, "type", "")
         IN IF msg_type = "conversation.item.create"
            THEN LET item == Get(message, "item", Obj(Emp))
                 IN IF item.kind # "dict" THEN Raise(lum)
                    ELSE IF Get(item.obj, "type", NONE) # "message" THEN Ret(data, lum)
                    ELSE IF "content" \notin DOMAIN item.obj THEN Ret(data, lum)
                    ELSE LET content == item.obj.content
                         IN IF content.kind = "list" /\ content.parts # <<>>
                            THEN IF content.parts[1].kind # "dict" THEN Raise(lum)
                                 ELSE Recorded(data, TextIn(content.parts[1].obj))
                            ELSE IF content.kind = "dict"
                            THEN Recorded(data, TextIn(content.obj))
                            ELSE Ret(data, lum)
            ELSE IF msg_type = "session.update"
            THEN IF "session" \notin DOMAIN message THEN Raise(lum)
                 ELSE IF message.session.kind # "dict" THEN Raise(lum)
                 ELSE Ret(json_dumps(Put(message, "session",
                            Obj(RewriteSession(message.session.obj, sm, vc, registry)))), lum)
            ELSE Ret(data, lum)

\* ------------------------------------------------------- AI -> client
\* _process_message_to_client up to the tool call: it returns the payload
\* ("return"), raises, hands the payload to safe_send ("gated"), or calls
\* the tool with args ("call")
Decision(act, args, name) == [act |-> act, args |-> args, name |-> name]
NoArgs == NonObj("none")

\* OverrideQuery with the assignment left out: the model's query stays
OverrideQuery_keeps_raw(args, lum) == args

\* args["query"] = self.last_user_message or ""
OverrideQuery(args, lum) == Obj(Put(args.obj, "query", IF Truthy(lum) THEN lum ELSE ""))

\* UnknownTool with the lookup failure swallowed: the event is passed on
UnknownTool_swallowed(tool_name) == Decision("return", NoArgs, tool_name)

\* tool = self.tools[tool_name] with no such key: KeyError
UnknownTool(tool_name) == Decision("raise", NoArgs, tool_name)

process_message_to_client(data, registry, lum) ==
    IF data.kind = "invalid" THEN Decision("return", NoArgs, "")
    ELSE IF data.kind = "nonobject" THEN Decision("raise", NoArgs, "")
    ELSE LET message == data.doc
             msg_type == Get(message, "type", "")
             item == Get(message, "item", Obj(Emp))
         IN IF msg_type = "response.output_item.done" /\ item.kind # "dict"
            THEN Decision("raise", NoArgs, "")
            ELSE IF msg_type = "response.output_item.done"
                    /\ Get(item.obj, "type", NONE) = "function_call"
            THEN IF "name" \notin DOMAIN item.obj \/ "arguments" \notin DOMAIN item.obj
                 THEN Decision("raise", NoArgs, "")
                 ELSE LET tool_name == item.obj.name
                          parsed == safe_json_loads(item.obj.arguments)
                          args == IF tool_name = "search" /\ parsed.kind = "dict"
                                  THEN OverrideQuery(parsed, lum)
                                  ELSE parsed
                      IN IF tool_name = "search" /\ parsed.kind # "dict"
                         THEN Decision("raise", NoArgs, tool_name)
                         ELSE IF tool_name \notin Keys(registry)
                         THEN UnknownTool(tool_name)
                         ELSE Decision("call", args, tool_name)
            ELSE IF msg_type \in {"conversation.item.created", "response.done"}
            THEN Decision("gated", NoArgs, "")
            ELSE Decision("return", NoArgs, "")

\* FunctionCallOutput keyed by a fresh id instead of the call's
FunctionCallOutput_fresh_id(call_id, result) ==
    json_dumps([type |-> "conversation.item.create",
                item |-> Obj([type |-> "function_call_output",
                              call_id |-> "call_0",
                              output |-> to_text(result)])])

\* the event server_ws.send_json sends after the tool returned
FunctionCallOutput(call_id, result) ==
    json_dumps([type |-> "conversation.item.create",
                item |-> Obj([type |-> "function_call_output",
                              call_id |-> call_id,
                              output |-> to_text(result)])])


\* --------------------------------------------------------------- state
VARIABLES
    system_message,     \* RTMiddleTier.system_message
    voice_choice,       \* RTMiddleTier.voice_choice
    tools,              \* RTMiddleTier.tools
    last_user_message,  \* RTMiddleTier.last_user_message
    lum_from,           \* history: the connection whose loop assigned it last
    phase,              \* per connection: idle, connecting, relaying, closing, closed
                        \* (crashed: an error left _websocket_handler)
    ws,                 \* the client socket: none, open, lost (peer gone), closed
    target_ws,          \* the upstream socket: none, open, lost, closed
    cpc,                \* from_client: idle, wait, done, raised
    spc,                \* from_server: idle, wait, tool, done, raised
    nC, nS,             \* frames read so far by each loop
    cIn, cOut,          \* from_client's last frame, and what it wrote upstream for it
    sIn, sUp, sCli,     \* from_server's last frame, what was written upstream and
                        \* delivered to the client while processing it
    sCall,              \* from_server's last frame's tool call: the tool, the
                        \* arguments handed to it, and how far the handler got
    toUp, toCli,        \* per socket, who wrote what in order: (source, frame number)
    tool_result,        \* a ToolResult object
    out_text,           \* what its to_text() returned
    out_again,          \* what a second to_text() returned
    out_decoded,        \* what json.loads made of out_text
    tpc                 \* how far that went: none, made, text, again, decoded

shared == <<system_message, voice_choice, tools, last_user_message, lum_from>>
config == <<system_message, voice_choice, tools>>
socks == <<ws, target_ws>>
clientLoop == <<cpc, nC, cIn, cOut>>
serverLoop == <<spc, nS, sIn, sUp, sCli, sCall>>
logs == <<toUp, toCli>>
relay == <<shared, phase, socks, clientLoop, serverLoop, logs>>
texts == <<tool_result, out_text, out_again, out_decoded, tpc>>
vars == <<relay, texts>>

NoFrame == Frame("NONE", NoData)
Call(name, args, state) == [tool |-> name, args |-> args, state |-> state]
NoCall == Call("", NoArgs, "none")

\* RTMiddleTier.__init__ with voice_choice vc, system_message set to sm and
\* attach_rag_tools run on the object, before any connection
Construct(sm, vc) ==
    /\ system_message = sm
    /\ voice_choice = vc
    /\ tools = attach_rag_tools(<<>>)
    /\ last_user_message = NONE
    /\ lum_from = "none"
    /\ phase = [c \in Conns |-> "idle"]
    /\ ws = [c \in Conns |-> "none"]
    /\ target_ws = [c \in Conns |-> "none"]
    /\ cpc = [c \in Conns |-> "idle"]
    /\ spc = [c \in Conns |-> "idle"]
    /\ nC = [c \in Conns |-> 0]
    /\ nS = [c \in Conns |-> 0]
    /\ cIn = [c \in Conns |-> NoFrame]
    /\ cOut = [c \in Conns |-> <<>>]
    /\ sIn = [c \in Conns |-> NoFrame]
    /\ sUp = [c \in Conns |-> <<>>]
    /\ sCli = [c \in Conns |-> <<>>]
    /\ sCall = [c \in Conns |-> NoCall]
    /\ toUp = [c \in Conns |-> <<>>]
    /\ toCli = [c \in Conns |-> <<>>]

\* no ToolResult under study
NoToolResult ==
    /\ tool_result = ToolResult(Nothing, "TO_SERVER")
    /\ out_text = <<>>
    /\ out_again = <<>>
    /\ out_decoded = JSONDecodeError
    /\ tpc = "none"

\* the object as create_app configures it
Init == Construct("You are a RAG assistant.", "alloy") /\ NoToolResult

\* the object with or without a system message (None and "" are both
\* none) and with or without a voice choice: (system_message, voice_choice)
Configs ==
    { <<NONE, NONE>>, <<"", "alloy">>,
      <<"You are a RAG assistant.", NONE>>, <<"You are a RAG assistant.", "alloy">> }

InitAny ==
    /\ \E cfg \in Configs : Construct(cfg[1], cfg[2])
    /\ NoToolResult

\* ------------------------------------------------------------- entrypoint
\* ExceptClause with the except clause left out: an error of
\* _forward_messages leaves the handler
ExceptClause_missing(error) == IF error THEN "crashed" ELSE "closed"

\* `try: await self._forward_messages(ws)` / `except Exception as e:
\* logger.error(...)` / `return ws`: the phase the handler ends in, whether
\* _forward_messages raised or not
ExceptClause(error) == "closed"

\* _websocket_handler: ws.prepare(request), then _forward_messages starts
websocket_handler(c) ==
    /\ phase[c] = "idle"
    /\ phase' = [phase EXCEPT ![c] = "connecting"]
    /\ ws' = [ws EXCEPT ![c] = "open"]
    /\ UNCHANGED <<texts, shared, target_ws, clientLoop, serverLoop, logs>>

\* session.ws_connect succeeds: gather starts both loops
ws_connect(c) ==
    /\ phase[c] = "connecting"
    /\ phase' = [phase EXCEPT ![c] = "relaying"]
    /\ target_ws' = [target_ws EXCEPT ![c] = "open"]
    /\ cpc' = [cpc EXCEPT ![c] = "wait"]
    /\ spc' = [spc EXCEPT ![c] = "wait"]
    /\ UNCHANGED <<texts, shared, ws, nC, cIn, cOut, nS, sIn, sUp, sCli, sCall, logs>>

\* session.ws_connect raises: the handler logs it and returns ws, which
\* the web server then closes
ws_connect_fails(c) ==
    /\ phase[c] = "connecting"
    /\ phase' = [phase EXCEPT ![c] = ExceptClause(TRUE)]
    /\ ws' = [ws EXCEPT ![c] = "closed"]
    /\ UNCHANGED <<texts, shared, target_ws, clientLoop, serverLoop, logs>>

\* ------------------------------------------------------------ the peers
\* the browser goes away: sends on ws fail from now on, and the reader
\* will see the close
client_disconnects(c) ==
    /\ ws[c] = "open"
    /\ phase[c] = "relaying"
    /\ ws' = [ws EXCEPT ![c] = "lost"]
    /\ UNCHANGED <<texts, shared, phase, target_ws, clientLoop, serverLoop, logs>>

\* the upstream service goes away
upstream_disconnects(c) ==
    /\ target_ws[c] = "open"
    /\ phase[c] = "relaying"
    /\ target_ws' = [target_ws EXCEPT ![c] = "lost"]
    /\ UNCHANGED <<texts, shared, phase, ws, clientLoop, serverLoop, logs>>

\* ----------------------------------------------------------- from_client
\* SendUpstream with the failure of the write swallowed: the loop goes on
SendUpstream_swallows(c, n, updated) ==
    IF target_ws[c] = "open"
    THEN /\ toUp' = [toUp EXCEPT ![c] = Append(@, <<"client", n>>)]
         /\ cOut' = [cOut EXCEPT ![c] = <<updated>>]
         /\ cpc' = cpc
    ELSE /\ cpc' = cpc
         /\ cOut' = [cOut EXCEPT ![c] = <<>>]
         /\ toUp' = toUp

\* target_ws.send_str(updated) by from_client, for its frame number n
SendUpstream(c, n, updated) ==
    IF target_ws[c] = "open"
    THEN /\ toUp' = [toUp EXCEPT ![c] = Append(@, <<"client", n>>)]
         /\ cOut' = [cOut EXCEPT ![c] = <<updated>>]
         /\ cpc' = cpc
    ELSE /\ cpc' = [cpc EXCEPT ![c] = "raised"]
         /\ cOut' = [cOut EXCEPT ![c] = <<>>]
         /\ toUp' = toUp

\* from_client held up while a tool handler is awaited: one task runs
\* both directions
from_client_after_tool(c, msg) ==
    /\ spc[c] # "tool"
    /\ cpc[c] = "wait"
    /\ ws[c] = "open"
    /\ nC[c] < MaxClientMsgs
    /\ nC' = [nC EXCEPT ![c] = @ + 1]
    /\ cIn' = [cIn EXCEPT ![c] = msg]
    /\ IF msg.type # "TEXT"
       THEN /\ cOut' = [cOut EXCEPT ![c] = <<>>]
            /\ UNCHANGED <<last_user_message, lum_from, cpc, toUp>>
       ELSE LET r == process_message_to_server(msg.data, system_message, voice_choice,
                                               tools, last_user_message)
            IN /\ last_user_message' = r.lum
               /\ lum_from' = IF r.wrote THEN c ELSE lum_from
               /\ IF r.raised
                  THEN /\ cpc' = [cpc EXCEPT ![c] = "raised"]
                       /\ cOut' = [cOut EXCEPT ![c] = <<>>]
                       /\ toUp' = toUp
                  ELSE IF NonEmpty(r.updated)
                  THEN SendUpstream(c, nC[c] + 1, r.updated)
                  ELSE /\ cOut' = [cOut EXCEPT ![c] = <<>>]
                       /\ UNCHANGED <<cpc, toUp>>
    /\ UNCHANGED <<texts, config, phase, socks, serverLoop, toCli>>

\* one turn of `async for msg in ws` with a frame read
from_client(c, msg) ==
    /\ cpc[c] = "wait"
    /\ ws[c] = "open"
    /\ nC[c] < MaxClientMsgs
    /\ nC' = [nC EXCEPT ![c] = @ + 1]
    /\ cIn' = [cIn EXCEPT ![c] = msg]
    /\ IF msg.type # "TEXT"
       THEN /\ cOut' = [cOut EXCEPT ![c] = <<>>]
            /\ UNCHANGED <<last_user_message, lum_from, cpc, toUp>>
       ELSE LET r == process_message_to_server(msg.data, system_message, voice_choice,
                                               tools, last_user_message)
            IN /\ last_user_message' = r.lum
               /\ lum_from' = IF r.wrote THEN c ELSE lum_from
               /\ IF r.raised
                  THEN /\ cpc' = [cpc EXCEPT ![c] = "raised"]
                       /\ cOut' = [cOut EXCEPT ![c] = <<>>]
                       /\ toUp' = toUp
                  ELSE IF NonEmpty(r.updated)
                  THEN SendUpstream(c, nC[c] + 1, r.updated)
                  ELSE /\ cOut' = [cOut EXCEPT ![c] = <<>>]
                       /\ UNCHANGED <<cpc, toUp>>
    /\ UNCHANGED <<texts, config, phase, socks, serverLoop, toCli>>

\* `async for msg in ws` ends: the socket was closed or the peer is gone
from_client_ends(c) ==
    /\ cpc[c] = "wait"
    /\ ws[c] \in {"lost", "closed"}
    /\ cpc' = [cpc EXCEPT ![c] = "done"]
    /\ ws' = [ws EXCEPT ![c] = "closed"]
    /\ UNCHANGED <<texts, shared, phase, target_ws, nC, cIn, cOut, serverLoop, logs>>


\* ----------------------------------------------------------- from_server
\* Delivered with the frame put ahead of those already sent
Delivered_overtakes(c, n, data) ==
    /\ sCli' = [sCli EXCEPT ![c] = <<data>>]
    /\ toCli' = [toCli EXCEPT ![c] = <<<<"server", n>>>> \o @]

\* ws.send_str(data) went through: the client socket got the frame
Delivered(c, n, data) ==
    /\ sCli' = [sCli EXCEPT ![c] = <<data>>]
    /\ toCli' = [toCli EXCEPT ![c] = Append(@, <<"server", n>>)]

NotDelivered(c) ==
    /\ sCli' = [sCli EXCEPT ![c] = <<>>]
    /\ toCli' = toCli

\* safe_send with the test of ws.closed inverted: an open socket is skipped
safe_send_inverted(c, n, data) == NotDelivered(c)

\* safe_send(client_ws, data): skipped when ws.closed, and an exception of
\* send_str is swallowed; it never raises
safe_send(c, n, data) ==
    IF ws[c] = "closed" THEN NotDelivered(c)
    ELSE IF ws[c] = "open" THEN Delivered(c, n, data)
    ELSE NotDelivered(c)

\* `await ws.send_str(updated)` in from_server: raises unless ws is open
SendClient(c, n, updated) ==
    IF ws[c] = "open"
    THEN /\ Delivered(c, n, updated)
         /\ spc' = [spc EXCEPT ![c] = "wait"]
    ELSE /\ NotDelivered(c)
         /\ spc' = [spc EXCEPT ![c] = "raised"]

\* Inject routed by the result's destination: only a TO_SERVER result is
\* written upstream
Inject_by_destination(c, n, item, result) ==
    IF "call_id" \in DOMAIN item /\ target_ws[c] = "open"
    THEN IF result.destination = "TO_SERVER"
         THEN /\ sUp' = [sUp EXCEPT ![c] = <<FunctionCallOutput(item.call_id, result)>>]
              /\ toUp' = [toUp EXCEPT ![c] = Append(@, <<"tool", n>>)]
              /\ spc' = [spc EXCEPT ![c] = "wait"]
         ELSE /\ sUp' = [sUp EXCEPT ![c] = <<>>]
              /\ toUp' = toUp
              /\ spc' = [spc EXCEPT ![c] = "wait"]
    ELSE /\ sUp' = [sUp EXCEPT ![c] = <<>>]
         /\ toUp' = toUp
         /\ spc' = [spc EXCEPT ![c] = "raised"]

\* server_ws.send_json({... "call_id": item["call_id"], "output": result.to_text()})
\* and `return None`, for the call of frame number n
Inject(c, n, item, result) ==
    IF "call_id" \in DOMAIN item /\ target_ws[c] = "open"
    THEN /\ sUp' = [sUp EXCEPT ![c] = <<FunctionCallOutput(item.call_id, result)>>]
         /\ toUp' = [toUp EXCEPT ![c] = Append(@, <<"tool", n>>)]
         /\ spc' = [spc EXCEPT ![c] = "wait"]
    ELSE /\ sUp' = [sUp EXCEPT ![c] = <<>>]
         /\ toUp' = toUp
         /\ spc' = [spc EXCEPT ![c] = "raised"]

\* the tool call from `await tool.target(args)` on, given how far the
\* handler got
AfterHandler(c, n, item, args, h) ==
    /\ sCall' = [sCall EXCEPT ![c] =
                    Call(item.name, args, CASE h.step = "return" -> "returned"
                                            [] h.step = "await" -> "awaiting"
                                            [] OTHER -> "raised")]
    /\ IF h.step = "return" THEN Inject(c, n, item, h.result)
       ELSE /\ spc' = [spc EXCEPT ![c] = IF h.step = "await" THEN "tool" ELSE "raised"]
            /\ sUp' = [sUp EXCEPT ![c] = <<>>]
            /\ toUp' = toUp

\* AtLoopHead for a loop that starts the handler as a task of its own and
\* reads on while it runs
AtLoopHead_spawns(c) == spc[c] \in {"wait", "tool"}

\* from_server is at `async for msg in target_ws`: the awaits of the turn
\* before (the handler, send_json, send_str) are over
AtLoopHead(c) == spc[c] = "wait"

\* from_server without the test of msg.type: every frame is handled as text
from_server_any_type(c, msg) ==
    /\ AtLoopHead(c)
    /\ target_ws[c] = "open"
    /\ nS[c] < MaxServerMsgs
    /\ nS' = [nS EXCEPT ![c] = @ + 1]
    /\ sIn' = [sIn EXCEPT ![c] = msg]
    /\ IF FALSE
       THEN /\ NotDelivered(c)
            /\ sUp' = [sUp EXCEPT ![c] = <<>>]
            /\ sCall' = [sCall EXCEPT ![c] = NoCall]
            /\ UNCHANGED <<spc, toUp>>
       ELSE LET d == process_message_to_client(msg.data, tools, last_user_message)
                n == nS[c] + 1
            IN IF d.act = "call"
               THEN /\ NotDelivered(c)
                    /\ AfterHandler(c, n, msg.data.doc.item.obj, d.args,
                                    Target(Value(tools, d.name), d.args))
               ELSE /\ sCall' = [sCall EXCEPT ![c] = NoCall]
                    /\ sUp' = [sUp EXCEPT ![c] = <<>>]
                    /\ toUp' = toUp
                    /\ IF d.act = "gated"
                       THEN /\ safe_send(c, n, msg.data)
                            /\ spc' = spc
                       ELSE IF d.act = "return" /\ NonEmpty(msg.data)
                       THEN SendClient(c, n, msg.data)
                       ELSE /\ NotDelivered(c)
                            /\ spc' = [spc EXCEPT ![c] =
                                          IF d.act = "raise" THEN "raised" ELSE "wait"]
    /\ UNCHANGED <<texts, shared, phase, socks, clientLoop>>

\* one turn of `async for msg in target_ws` with a frame read, up to the
\* first point where it waits for something else than its own sockets
from_server(c, msg) ==
    /\ AtLoopHead(c)
    /\ target_ws[c] = "open"
    /\ nS[c] < MaxServerMsgs
    /\ nS' = [nS EXCEPT ![c] = @ + 1]
    /\ sIn' = [sIn EXCEPT ![c] = msg]
    /\ IF msg.type # "TEXT"
       THEN /\ NotDelivered(c)
            /\ sUp' = [sUp EXCEPT ![c] = <<>>]
            /\ sCall' = [sCall EXCEPT ![c] = NoCall]
            /\ UNCHANGED <<spc, toUp>>
       ELSE LET d == process_message_to_client(msg.data, tools, last_user_message)
                n == nS[c] + 1
            IN IF d.act = "call"
               THEN /\ NotDelivered(c)
                    /\ AfterHandler(c, n, msg.data.doc.item.obj, d.args,
                                    Target(Value(tools, d.name), d.args))
               ELSE /\ sCall' = [sCall EXCEPT ![c] = NoCall]
                    /\ sUp' = [sUp EXCEPT ![c] = <<>>]
                    /\ toUp' = toUp
                    /\ IF d.act = "gated"
                       THEN /\ safe_send(c, n, msg.data)
                            /\ spc' = spc
                       ELSE IF d.act = "return" /\ NonEmpty(msg.data)
                       THEN SendClient(c, n, msg.data)
                       ELSE /\ NotDelivered(c)
                            /\ spc' = [spc EXCEPT ![c] =
                                          IF d.act = "raise" THEN "raised" ELSE "wait"]
    /\ UNCHANGED <<texts, shared, phase, socks, clientLoop>>

\* the search the handler awaited ends; the handler finishes and the
\* output is injected
tool_resumes(c, outcome) ==
    /\ spc[c] = "tool"
    /\ LET item == sIn[c].data.doc.item.obj
       IN AfterHandler(c, nS[c], item, sCall[c].args,
                       Resume(Value(tools, item.name), outcome))
    /\ UNCHANGED <<texts, shared, phase, socks, clientLoop, nS, sIn, sCli, toCli>>

\* `async for msg in target_ws` ends
from_server_ends(c) ==
    /\ spc[c] = "wait"
    /\ target_ws[c] \in {"lost", "closed"}
    /\ spc' = [spc EXCEPT ![c] = "done"]
    /\ target_ws' = [target_ws EXCEPT ![c] = "closed"]
    /\ UNCHANGED <<texts, shared, phase, ws, clientLoop, nS, sIn, sUp, sCli, sCall, logs>>

\* ---------------------------------------------------------------- teardown
\* asyncio.gather is over: a loop raised, or both ended
GatherOver(c) ==
    \/ cpc[c] = "raised"
    \/ spc[c] = "raised"
    \/ cpc[c] = "done" /\ spc[c] = "done"

\* _forward_messages leaves `async with session.ws_connect(...)`, which
\* closes target_ws; a loop gather did not wait for keeps running
forward_messages_exits(c) ==
    /\ phase[c] = "relaying"
    /\ GatherOver(c)
    /\ phase' = [phase EXCEPT ![c] = "closing"]
    /\ target_ws' = [target_ws EXCEPT ![c] = "closed"]
    /\ UNCHANGED <<texts, shared, ws, clientLoop, serverLoop, logs>>

\* websocket_handler_returns with the client socket left open behind it
websocket_handler_returns_leaves_open(c) ==
    /\ phase[c] = "closing"
    /\ phase' = [phase EXCEPT ![c] = ExceptClause(cpc[c] = "raised" \/ spc[c] = "raised")]
    /\ UNCHANGED <<texts, shared, ws, target_ws, clientLoop, serverLoop, logs>>

\* _websocket_handler returns ws (after logging the error, if any), and the
\* web server closes the client socket
websocket_handler_returns(c) ==
    /\ phase[c] = "closing"
    /\ phase' = [phase EXCEPT ![c] = ExceptClause(cpc[c] = "raised" \/ spc[c] = "raised")]
    /\ ws' = [ws EXCEPT ![c] = "closed"]
    /\ UNCHANGED <<texts, shared, target_ws, clientLoop, serverLoop, logs>>

\* --------------------------------------------------------- specifications
\* what the relay does by itself on connection c, with no new frame and
\* no peer going away
RelayStep(c) ==
    \/ ws_connect(c)
    \/ ws_connect_fails(c)
    \/ from_client_ends(c)
    \/ from_server_ends(c)
    \/ \E o \in SearchOutcomes : tool_resumes(c, o)
    \/ forward_messages_exits(c)
    \/ websocket_handler_returns(c)

Peer(c, CF, SF) ==
    \/ websocket_handler(c)
    \/ \E msg \in CF : from_client(c, msg)
    \/ \E msg \in SF : from_server(c, msg)
    \/ client_disconnects(c)
    \/ upstream_disconnects(c)

\* the client frames that matter to the upstream -> client direction
CoreClientFrames ==
    {Frame("TEXT", d) : d \in
        {ItemCreate("compact", "message", ContentList(<<Obj([type |-> "input_text", text |-> t])>>)) : t \in UserTexts}
        \cup {AudioMsg, Scalar("[1]"),
              Text("compact", [type |-> "input_audio_buffer.append", audio |-> "AAAA"])}}
    \cup {Frame("BINARY", Garbage("bytes"))}

\* the upstream frames that matter to the client -> upstream direction
CoreServerFrames ==
    {Frame("TEXT", d) : d \in
        {FunctionCall("search", ArgQuery, "call_1"),
         FunctionCall("unknown_tool", ArgQuery, "call_1"),
         Text("compact", [type |-> "response.done"]),
         Text("compact", [type |-> "response.audio.delta", delta |-> "AAAA"])}}

\* one connection, every upstream frame
Next ==
    \/ RelayStep("A")
    \/ Peer("A", CoreClientFrames, ServerFrames)

Spec == Init /\ [][Next]_vars

\* one connection, every client frame, every configuration
NextClient ==
    \/ RelayStep("A")
    \/ Peer("A", ClientFrames, CoreServerFrames)

SpecClient == InitAny /\ [][NextClient]_vars

\* two connections served by the one RTMiddleTier object
TwoClientFrames ==
    {Frame("TEXT", ItemCreate("compact", "message",
        ContentList(<<Obj([type |-> "input_text", text |-> t])>>))) : t \in {"q1"}}

TwoServerFrames ==
    {Frame("TEXT", d) : d \in
        {FunctionCall("search", ArgQuery, "call_1"),
         FunctionCall("unknown_tool", ArgQuery, "call_1")}}

NextTwo ==
    \E c \in Conns :
        \/ RelayStep(c)
        \/ websocket_handler(c)
        \/ \E msg \in TwoClientFrames : nC[c] < MaxTwoMsgs /\ from_client(c, msg)
        \/ \E msg \in TwoServerFrames : nS[c] < MaxTwoMsgs /\ from_server(c, msg)
        \/ upstream_disconnects(c)

SpecTwo == Init /\ [][NextTwo]_vars

\* ------------------------------------------------- ToolResult.to_text
\* payloads that are structures: what the handlers return, with up to
\* MaxDocs documents, and other dicts and lists of JSON values
StructuredPayloads ==
    { Dict("error", Str("Missing 'query'")),
      Dict("error", PyStr(<<"a", " ", "\"", "b", "\"", ",", "\\", "}">>)),
      Dict("error", PyStr(<<>>)),
      Dict("error", PyNone),
      PyDict(<<>>), PyList(<<>>),
      PyList(<<PyNone, Str("null"), PyList(<<>>), PyDict(<<>>)>>) }
    \cup {Dict(k, Docs(n)) : k \in {"results", "sources"}, n \in 0..MaxDocs}

\* payloads that are strings, those that read as JSON included
StringPayloads ==
    { PyStr(<<>>), Str("hello"), Str("null"), PyStr(<<"{", "}">>),
      PyStr(<<"\"", "a", "\"">>), PyStr(<<"a", "\\", "\"">>),
      PyStr(dumps(Dict("results", Docs(1)))) }

Payloads == StructuredPayloads \cup StringPayloads \cup {Nothing}

Directions == {"TO_SERVER", "TO_CLIENT"}

\* ToolResult(text, dest), nothing else having happened
InitText ==
    /\ Construct("You are a RAG assistant.", "alloy")
    /\ \E p \in Payloads : \E d \in Directions : tool_result = ToolResult(p, d)
    /\ out_text = <<>>
    /\ out_again = <<>>
    /\ out_decoded = JSONDecodeError
    /\ tpc = "made"

\* result.to_text()
call_to_text ==
    /\ tpc = "made"
    /\ out_text' = to_text(tool_result)
    /\ tpc' = "text"
    /\ UNCHANGED <<relay, tool_result, out_again, out_decoded>>

\* result.to_text(), a second time
call_to_text_again ==
    /\ tpc = "text"
    /\ out_again' = to_text(tool_result)
    /\ tpc' = "again"
    /\ UNCHANGED <<relay, tool_result, out_text, out_decoded>>

\* json.loads of the text
loads_text ==
    /\ tpc = "again"
    /\ out_decoded' = loads(out_text)
    /\ tpc' = "decoded"
    /\ UNCHANGED <<relay, tool_result, out_text, out_again>>

NextText ==
    \/ call_to_text
    \/ call_to_text_again
    \/ loads_text

SpecText == InitText /\ [][NextText]_vars

\* ----------------------------------------------------------- properties
\* what json.loads and message.get("type", "") make of a frame
TypeOf(f) ==
    IF f.type = "TEXT" /\ f.data.kind = "object" THEN Get(f.data.doc, "type", "") ELSE "<none>"

\* a response.output_item.done whose item is a function_call
IsFunctionCall(f) ==
    /\ TypeOf(f) = "response.output_item.done"
    /\ "item" \in DOMAIN f.data.doc
    /\ f.data.doc.item.kind = "dict"
    /\ Get(f.data.doc.item.obj, "type", NONE) = "function_call"

CallItem(f) == f.data.doc.item.obj

NamesRegistered(f) ==
    IsFunctionCall(f) /\ "name" \in DOMAIN CallItem(f) /\ CallItem(f).name \in Keys(tools)

NamesUnknown(f) ==
    /\ IsFunctionCall(f)
    /\ {"name", "arguments"} \subseteq DOMAIN CallItem(f)
    /\ CallItem(f).name \notin Keys(tools)

IsGated(f) == TypeOf(f) \in {"conversation.item.created", "response.done"}

IsSessionUpdate(f) == TypeOf(f) = "session.update"

\* a conversation.item.create / function_call_output event for call_id
IsOutputFor(p, call_id) ==
    /\ p.kind = "object"
    /\ Get(p.doc, "type", "") = "conversation.item.create"
    /\ Get(p.doc.item.obj, "type", NONE) = "function_call_output"
    /\ Get(p.doc.item.obj, "call_id", NONE) = call_id

\* how many times log holds entry
Count(log, entry) == Cardinality({i \in 1..Len(log) : log[i] = entry})

\* the frame from_server read in this step on c
ReadsUpstream(c) == nS'[c] = nS[c] + 1

\* C1: a function-call event naming a registered tool whose handler returned
\* puts at most one event on the upstream socket, a function_call_output with
\* the event's call_id, and exactly one unless that write raised; nothing is
\* delivered to the client for it.
C1_OneOutputSameCallId ==
    \A c \in Conns :
        (NamesRegistered(sIn[c]) /\ sCall[c].state = "returned") =>
            /\ sCli[c] = <<>>
            /\ Count(toCli[c], <<"server", nS[c]>>) = 0
            /\ Len(sUp[c]) <= 1
            /\ Count(toUp[c], <<"tool", nS[c]>>) = Len(sUp[c])
            /\ \A i \in 1..Len(sUp[c]) : IsOutputFor(sUp[c][i], CallItem(sIn[c]).call_id)
            /\ spc[c] # "raised" => Len(sUp[c]) = 1

C1_Witness ==
    /\ NamesRegistered(sIn["A"])
    /\ sCall["A"] = Call("report_grounding", Obj([sources |-> <<"doc1">>]), "returned")
    /\ spc["A"] = "wait"
    /\ sUp["A"] = <<FunctionCallOutput("call_2", ToolResult(Dict("sources", Docs(1)), "TO_CLIENT"))>>

\* C2: when a call of "search" is dispatched, the query handed to the handler
\* is last_user_message as it stands in that step, if one is recorded,
\* whatever the raw arguments held.
C2_QueryIsLastUserMessage ==
    [][\A c \in Conns :
        (ReadsUpstream(c) /\ sCall'[c].tool = "search" /\ last_user_message # NONE) =>
            Get(sCall'[c].args.obj, "query", NONE) = last_user_message]_vars

C2_Witness ==
    /\ nC["A"] = 2
    /\ last_user_message = "q2"
    /\ sIn["A"] = Frame("TEXT", FunctionCall("search", ArgQuery, "call_1"))
    /\ sCall["A"].tool = "search"
    /\ sCall["A"].args = Obj([query |-> "q2"])

\* C3: the last_user_message that overrides a search query on a connection
\* was recorded by that connection's own from_client loop.
C3_OverrideFromOwnConnection ==
    [][\A c \in Conns :
        (ReadsUpstream(c) /\ sCall'[c].tool = "search" /\ last_user_message # NONE) =>
            lum_from = c]_vars

\* the session object of the event from_client forwarded for a session.update
Forwarded(c) == cOut[c][1].doc.session.obj

\* C4: the session.update forwarded upstream has the configured instructions
\* and the configured voice, whenever configured; a session.update with a
\* session object is forwarded unless the write raised.
C4_InstructionsAndVoice ==
    \A c \in Conns :
        IsSessionUpdate(cIn[c]) =>
            /\ cOut[c] # <<>> =>
                /\ IsSessionUpdate(Frame("TEXT", cOut[c][1]))
                /\ Truthy(system_message) => Get(Forwarded(c), "instructions", NONE) = system_message
                /\ Truthy(voice_choice) => Get(Forwarded(c), "voice", NONE) = voice_choice
            /\ (cpc[c] # "raised") => cOut[c] # <<>>

C4_Witness ==
    /\ cIn["A"] = Frame("TEXT", SessionUpdate(ClientSession))
    /\ cOut["A"] # <<>>
    /\ Forwarded("A").instructions = "You are a RAG assistant."
    /\ Forwarded("A").voice = "alloy"

\* C5: the session.update forwarded upstream lists one schema per registered
\* tool, named as the registry's keys, with tool_choice "auto".
C5_ToolsAreTheRegistry ==
    \A c \in Conns :
        (IsSessionUpdate(cIn[c]) /\ cOut[c] # <<>>) =>
            LET listed == Get(Forwarded(c), "tools", <<>>)
            IN /\ {listed[i].name : i \in 1..Len(listed)} = Keys(tools)
               /\ Len(listed) = Cardinality(Keys(tools))
               /\ Get(Forwarded(c), "tool_choice", NONE) = "auto"

C5_Witness ==
    /\ cIn["A"] = Frame("TEXT", SessionUpdate(Obj([tools |-> <<>>, tool_choice |-> "none"])))
    /\ cOut["A"] # <<>>
    /\ Forwarded("A").tools = <<Schema("search"), Schema("report_grounding")>>

\* C6: a conversation.item.created or response.done event is delivered to
\* the client at most once, verbatim and exactly once if the client socket
\* is open, and nothing is written upstream for it.
C6_GatedOnceToClient ==
    \A c \in Conns :
        IsGated(sIn[c]) =>
            /\ sUp[c] = <<>>
            /\ Count(toUp[c], <<"tool", nS[c]>>) = 0
            /\ Len(sCli[c]) <= 1
            /\ Count(toCli[c], <<"server", nS[c]>>) = Len(sCli[c])
            /\ ws[c] = "open" => sCli[c] = <<sIn[c].data>>

C6_Witness ==
    /\ TypeOf(sIn["A"]) = "response.done"
    /\ ws["A"] = "open"
    /\ sCli["A"] = <<sIn["A"].data>>
    /\ toCli["A"] = <<<<"server", 1>>>>

\* C7: when the handler of a registered tool raises, a function_call_output
\* for the call is still injected upstream and from_server goes on.
C7_HandlerErrorCaught ==
    \A c \in Conns :
        sCall[c].state = "raised" =>
            /\ spc[c] # "raised"
            /\ Len(sUp[c]) = 1
            /\ IsOutputFor(sUp[c][1], Get(CallItem(sIn[c]), "call_id", NONE))

\* a function call naming a tool the registry lacks has sent nothing, has
\* called no handler and has ended from_server with the error, after which
\* _forward_messages exits
C8_State ==
    \A c \in Conns :
        NamesUnknown(sIn[c]) =>
            /\ sUp[c] = <<>>
            /\ sCli[c] = <<>>
            /\ Count(toUp[c], <<"tool", nS[c]>>) = 0
            /\ Count(toCli[c], <<"server", nS[c]>>) = 0
            /\ sCall[c] = NoCall
            /\ spc[c] = "raised"
            /\ phase[c] \in {"closing", "closed"} \/ ENABLED forward_messages_exits(c)

\* a from_server that ended with an error reads no further frame
C8_Step ==
    \A c \in Conns : spc[c] = "raised" => (spc'[c] = "raised" /\ nS'[c] = nS[c] /\ sIn'[c] = sIn[c])

\* C8: a function call naming a tool the registry lacks sends no
\* function_call_output upstream and nothing to the client, and ends the
\* session: from_server ends with the error, _forward_messages exits, and no
\* later upstream frame is processed.
C8_UnknownToolEndsSession == []C8_State /\ [][C8_Step]_vars

C8_Witness ==
    /\ NamesUnknown(sIn["A"])
    /\ spc["A"] = "raised"
    /\ phase["A"] = "closed"
    /\ nS["A"] = 1

\* the event is one process_message_to_client hands on to the client
ClientBound(f) ==
    /\ f.type = "TEXT"
    /\ LET d == process_message_to_client(f.data, tools, last_user_message)
       IN d.act = "gated" \/ (d.act = "return" /\ NonEmpty(f.data))

\* C9: a client-bound event, gated or passed through, that finds the client
\* socket closed or failing does not end from_server with an error.
C9_ClientSendBestEffort ==
    [][\A c \in Conns :
        (ReadsUpstream(c) /\ ClientBound(sIn'[c]) /\ ws[c] # "open") =>
            spc'[c] # "raised"]_vars

\* C10: once a forwarding loop has ended, the relay closes down by steps of
\* its own, needing no frame and no disconnect from either peer.
C10_LoopEndTearsDown ==
    \A c \in Conns :
        (phase[c] = "relaying" /\ (cpc[c] \in {"done", "raised"} \/ spc[c] \in {"done", "raised"}))
            => ENABLED RelayStep(c)

\* an error surfaces on connection c in this step: a loop raises, or
\* ws_connect does
ErrorSurfaces(c) ==
    \/ cpc[c] # "raised" /\ cpc'[c] = "raised"
    \/ spc[c] # "raised" /\ spc'[c] = "raised"
    \/ phase[c] = "connecting" /\ phase'[c] \notin {"connecting", "relaying"}

\* the handler of c ends the session in this step
HandlerEnds(c) == phase[c] \in {"relaying", "closing"} /\ phase'[c] # phase[c]

\* no error leaves _websocket_handler, and a loop that raised lets
\* _forward_messages exit
C11_State ==
    \A c \in Conns :
        /\ phase[c] # "crashed"
        /\ (phase[c] = "relaying" /\ (cpc[c] = "raised" \/ spc[c] = "raised"))
              => ENABLED forward_messages_exits(c)

\* an error on one connection, and the teardown that follows it, leave the
\* other connections as they are
C11_Step ==
    \A c \in Conns : \A d \in Conns \ {c} :
        ((ErrorSurfaces(c) \/ HandlerEnds(c)) /\ phase[d] = "relaying") =>
            /\ phase'[d] = "relaying"
            /\ ws'[d] = ws[d]
            /\ target_ws'[d] = target_ws[d]
            /\ cpc'[d] = cpc[d]
            /\ spc'[d] = spc[d]

\* C11: an error raised in from_client, in from_server or by ws_connect is
\* caught in _websocket_handler, which then returns: the error never leaves
\* the handler, the session ends, and a connection that is relaying at that
\* moment goes on relaying.
C11_ErrorEndsOnlyItsSession == []C11_State /\ [][C11_Step]_vars

C11_Witness ==
    /\ spc["A"] = "raised"
    /\ phase["A"] = "closed"
    /\ phase["B"] = "relaying"
    /\ cpc["B"] = "wait"
    /\ spc["B"] = "wait"

\* the frame from_client read in this step on c
ReadsClient(c) == nC'[c] = nC[c] + 1

\* the text a conversation.item.create message carries, as the first element
\* of a content list or in a single content object; NONE if it carries none
UserTextOf(f) ==
    IF TypeOf(f) # "conversation.item.create" \/ "item" \notin DOMAIN f.data.doc THEN NONE
    ELSE LET item == f.data.doc.item
         IN IF item.kind # "dict" THEN NONE
            ELSE IF Get(item.obj, "type", NONE) # "message" \/ "content" \notin DOMAIN item.obj
            THEN NONE
            ELSE LET content == item.obj.content
                 IN IF content.kind = "list" /\ content.parts # <<>> /\ content.parts[1].kind = "dict"
                    THEN Get(content.parts[1].obj, "text", NONE)
                    ELSE IF content.kind = "dict" THEN Get(content.obj, "text", NONE)
                    ELSE NONE

\* C12: when from_client reads a conversation.item.create whose message item
\* carries a text, in the first element of a content list or in a single
\* content object alike, last_user_message becomes that text and the frame's
\* payload is written upstream as it came, once, unless that write raises
\* because the upstream socket is gone.
C12_UserTextRecorded ==
    [][\A c \in Conns :
        (ReadsClient(c) /\ UserTextOf(cIn'[c]) # NONE) =>
            /\ last_user_message' = UserTextOf(cIn'[c])
            /\ IF target_ws[c] = "open"
               THEN /\ cOut'[c] = <<cIn'[c].data>>
                    /\ toUp'[c] = Append(toUp[c], <<"client", nC'[c]>>)
                    /\ cpc'[c] = "wait"
               ELSE cOut'[c] = <<>> /\ toUp'[c] = toUp[c] /\ cpc'[c] = "raised"]_vars

C12_Witness ==
    /\ cIn["A"] = Frame("TEXT", ItemCreate("spaced", "message",
                                 ContentDict([type |-> "input_text", text |-> "q1"])))
    /\ nC["A"] = 2
    /\ last_user_message = "q1"
    /\ lum_from = "A"
    /\ cOut["A"] = <<cIn["A"].data>>
    /\ toUp["A"] = <<<<"client", 1>>, <<"client", 2>>>>

\* a text frame whose payload json.loads rejects
NotJson(f) == f.type = "TEXT" /\ f.data.kind = "invalid"

\* the claim as stated, for an open upstream socket: every payload that is
\* no JSON, the empty one included, is written upstream as it came
C13_EveryNonJsonForwarded ==
    [][\A c \in Conns :
        (ReadsClient(c) /\ NotJson(cIn'[c]) /\ target_ws[c] = "open") =>
            /\ cOut'[c] = <<cIn'[c].data>>
            /\ toUp'[c] = Append(toUp[c], <<"client", nC'[c]>>)
            /\ last_user_message' = last_user_message
            /\ cpc'[c] = "wait"]_vars

\* C13: a client payload that is no JSON leaves last_user_message as it is;
\* if it is not empty it is written upstream as it came, once, and
\* from_client goes on, unless that write raises because the upstream socket
\* is gone; the empty payload is not written at all, and from_client goes on.
C13_NonEmptyNonJsonForwarded ==
    [][\A c \in Conns :
        (ReadsClient(c) /\ NotJson(cIn'[c])) =>
            /\ last_user_message' = last_user_message
            /\ IF cIn'[c].data.raw = ""
               THEN cOut'[c] = <<>> /\ toUp'[c] = toUp[c] /\ cpc'[c] = "wait"
               ELSE IF target_ws[c] = "open"
               THEN /\ cOut'[c] = <<cIn'[c].data>>
                    /\ toUp'[c] = Append(toUp[c], <<"client", nC'[c]>>)
                    /\ cpc'[c] = "wait"
               ELSE cOut'[c] = <<>> /\ toUp'[c] = toUp[c] /\ cpc'[c] = "raised"]_vars

C13_Witness ==
    /\ nC["A"] = 2
    /\ cIn["A"] = Frame("TEXT", Garbage("not json"))
    /\ cOut["A"] = <<Garbage("not json")>>
    /\ toUp["A"] = <<<<"client", 2>>>>
    /\ last_user_message = NONE
    /\ cpc["A"] = "wait"

\* C14: an upstream payload that is no JSON and not empty is delivered to
\* the client as it came, once, calls no tool, writes nothing upstream and
\* does not end from_server with an error, whatever the state of the client
\* socket.
C14_NonJsonToClientNeverFatal ==
    [][\A c \in Conns :
        (ReadsUpstream(c) /\ NotJson(sIn'[c]) /\ sIn'[c].data.raw # "") =>
            /\ sCall'[c] = NoCall
            /\ sUp'[c] = <<>>
            /\ toUp'[c] = toUp[c]
            /\ Len(sCli'[c]) <= 1
            /\ ws[c] = "open" => (/\ sCli'[c] = <<sIn'[c].data>>
                                  /\ toCli'[c] = Append(toCli[c], <<"server", nS'[c]>>))
            /\ spc'[c] # "raised"]_vars

\* a text frame whose payload is a JSON object
IsEvent(f) == f.type = "TEXT" /\ f.data.kind = "object"

\* C15: with both sockets open, a client event whose type is not
\* session.update is written upstream as it came, once, and an upstream event
\* that is neither a function call, nor conversation.item.created, nor
\* response.done is delivered to the client as it came, once, with nothing
\* written upstream.
C15_OthersPassThrough ==
    [][\A c \in Conns :
        /\ (ReadsClient(c) /\ IsEvent(cIn'[c]) /\ ~IsSessionUpdate(cIn'[c])
                /\ target_ws[c] = "open") =>
              /\ cOut'[c] = <<cIn'[c].data>>
              /\ toUp'[c] = Append(toUp[c], <<"client", nC'[c]>>)
        /\ (ReadsUpstream(c) /\ IsEvent(sIn'[c]) /\ ~IsFunctionCall(sIn'[c])
                /\ ~IsGated(sIn'[c]) /\ ws[c] = "open") =>
              /\ sCli'[c] = <<sIn'[c].data>>
              /\ toCli'[c] = Append(toCli[c], <<"server", nS'[c]>>)
              /\ sUp'[c] = <<>>
              /\ toUp'[c] = toUp[c]]_vars

\* C16: from_server reads an upstream frame only when no tool handler of the
\* connection is outstanding, and if the frame before was a function call
\* whose handler returned, its function_call_output has been written
\* upstream, once, before this frame is read.
C16_ToolCallsSerialized ==
    [][\A c \in Conns :
        ReadsUpstream(c) =>
            /\ spc[c] # "tool"
            /\ sCall[c].state \in {"none", "returned"}
            /\ sCall[c].state = "returned" =>
                  /\ Len(sUp[c]) = 1
                  /\ IsOutputFor(sUp[c][1], Get(CallItem(sIn[c]), "call_id", NONE))
                  /\ Count(toUp[c], <<"tool", nS[c]>>) = 1]_vars

C16_Witness ==
    /\ nS["A"] = 2
    /\ sIn["A"] = Frame("TEXT", FunctionCall("report_grounding", ArgSources(<<"doc1">>), "call_2"))
    /\ sCall["A"].state = "awaiting"
    /\ spc["A"] = "tool"
    /\ toUp["A"] = <<<<"tool", 1>>>>
    /\ nC["A"] = 0

\* the frame numbers that source wrote to a socket, in the order written
Numbers(log, source) ==
    LET own == SelectSeq(log, LAMBDA e : e[1] = source)
    IN [i \in 1..Len(own) |-> own[i][2]]

\* strictly increasing: in the order read, and none twice
Ascending(seq) == \A i, j \in 1..Len(seq) : i < j => seq[i] < seq[j]

\* C17: what from_client wrote upstream is in the order it read the frames
\* from the client, and what from_server delivered to the client, passed
\* through or gated, is in the order it read the frames from upstream.
C17_OrderPreserved ==
    \A c \in Conns :
        /\ Ascending(Numbers(toUp[c], "client"))
        /\ Ascending(Numbers(toCli[c], "server"))
        /\ \A i \in 1..Len(toCli[c]) : toCli[c][i][1] = "server"

C17_Witness ==
    /\ Numbers(toUp["A"], "client") = <<1, 2>>
    /\ toCli["A"] = <<<<"server", 1>>, <<"server", 2>>>>
    /\ TypeOf(sIn["A"]) = "response.audio.delta"
    /\ sCli["A"] = <<sIn["A"].data>>

Sent(c) == cIn[c].data.doc.session.obj

\* two objects agree on key: both lack it, or both hold the same value
SameAt(f, g, key) ==
    /\ key \in DOMAIN f <=> key \in DOMAIN g
    /\ key \in DOMAIN f => f[key] = g[key]

\* C19: in the session.update forwarded upstream, the instructions are as the
\* client sent them (present or absent) when no system message is
\* configured, the voice is as the client sent it when no voice is
\* configured, every other session field but tools and tool_choice, and every
\* top-level field but session, is as the client sent it, and no field is
\* added or dropped.
C19_UnconfiguredLeftUntouched ==
    \A c \in Conns :
        (IsSessionUpdate(cIn[c]) /\ cOut[c] # <<>>) =>
            LET rewritten == {"instructions", "tools", "tool_choice", "voice"}
                event == cOut[c][1].doc
            IN /\ ~Truthy(system_message) => SameAt(Sent(c), Forwarded(c), "instructions")
               /\ ~Truthy(voice_choice) => SameAt(Sent(c), Forwarded(c), "voice")
               /\ \A k \in (DOMAIN Sent(c) \cup DOMAIN Forwarded(c)) \ rewritten :
                     SameAt(Sent(c), Forwarded(c), k)
               /\ \A k \in (DOMAIN cIn[c].data.doc \cup DOMAIN event) \ {"session"} :
                     SameAt(cIn[c].data.doc, event, k)
               /\ "session" \in DOMAIN event

C19_Witness ==
    /\ system_message = NONE
    /\ voice_choice = NONE
    /\ cIn["A"] = Frame("TEXT", SessionUpdate(ClientSession))
    /\ cOut["A"] # <<>>
    /\ Forwarded("A").instructions = "client instructions"
    /\ Forwarded("A").voice = "echo"
    /\ Forwarded("A").temperature = "0.8"
    /\ cOut["A"][1].doc.event_id = "e1"

\* a function call naming a registered tool, its arguments no JSON
MalformedCall(f) ==
    /\ NamesRegistered(f)
    /\ "arguments" \in DOMAIN CallItem(f)
    /\ CallItem(f).arguments.kind = "invalid"

\* the call is dispatched in the step that reads it: the named tool's handler
\* is called with {}, or with {"query": last_user_message or ""} for search
C20_Step ==
    \A c \in Conns :
        (ReadsUpstream(c) /\ MalformedCall(sIn'[c])) =>
            /\ sCall'[c].tool = CallItem(sIn'[c]).name
            /\ sCall'[c].state # "none"
            /\ sCall'[c].args =
                  IF CallItem(sIn'[c]).name = "search"
                  THEN Obj([query |-> IF last_user_message = NONE THEN "" ELSE last_user_message])
                  ELSE Obj(Emp)

\* nothing goes to the client for it; what goes upstream is the one
\* function_call_output of the call, written once the handler returned; and
\* from_server ends with an error only if the handler itself raised or that
\* write raised
C20_State ==
    \A c \in Conns :
        MalformedCall(sIn[c]) =>
            /\ sCli[c] = <<>>
            /\ Count(toCli[c], <<"server", nS[c]>>) = 0
            /\ Len(sUp[c]) <= 1
            /\ Count(toUp[c], <<"tool", nS[c]>>) = Len(sUp[c])
            /\ \A i \in 1..Len(sUp[c]) :
                  IsOutputFor(sUp[c][i], Get(CallItem(sIn[c]), "call_id", NONE))
            /\ (sCall[c].state = "returned" /\ spc[c] # "raised") => Len(sUp[c]) = 1
            /\ spc[c] = "raised" => (sCall[c].state = "raised" \/ sUp[c] = <<>>)
            /\ (spc[c] = "raised" /\ sCall[c].tool = "report_grounding") =>
                  sCall[c].state = "returned"

\* C20: a function call naming a registered tool whose arguments string is
\* no JSON is dispatched with an empty argument object (plus the overriding
\* query for search); one function_call_output for its call_id is written
\* upstream when the handler has returned, nothing is sent to the client, and
\* from_server goes on unless the handler raised or the write upstream
\* failed.
C20_MalformedArgsDispatched == []C20_State /\ [][C20_Step]_vars

C20_Witness ==
    /\ sIn["A"] = Frame("TEXT", FunctionCall("search", ArgMalformed, "call_1"))
    /\ last_user_message = "q1"
    /\ sCall["A"] = Call("search", Obj([query |-> "q1"]), "returned")
    /\ sUp["A"] = <<FunctionCallOutput("call_1", ToolResult(Dict("results", Docs(1)), "TO_SERVER"))>>
    /\ spc["A"] = "wait"
    /\ phase["A"] = "relaying"

\* a conversation.item.create whose item is an object of type message
IsMessageCreate(f) ==
    /\ TypeOf(f) = "conversation.item.create"
    /\ "item" \in DOMAIN f.data.doc
    /\ f.data.doc.item.kind = "dict"
    /\ Get(f.data.doc.item.obj, "type", NONE) = "message"

\* C21: last_user_message changes only in a step in which from_client reads
\* a conversation.item.create whose item is a message; a step of from_server,
\* the dispatch of search and the end of its handler included, leaves it as
\* it is.
C21_SingleWriter ==
    [][/\ last_user_message' # last_user_message =>
              \E c \in Conns : ReadsClient(c) /\ IsMessageCreate(cIn'[c])
       /\ \A c \in Conns :
              (ReadsUpstream(c) \/ spc'[c] # spc[c] \/ sCall'[c] # sCall[c]) =>
                  last_user_message' = last_user_message]_vars

C21_Witness ==
    /\ nC["A"] = 2
    /\ IsSessionUpdate(cIn["A"])
    /\ cOut["A"] # <<>>
    /\ last_user_message = "q1"
    /\ sCall["A"] = Call("search", Obj([query |-> "q1"]), "returned")

\* from_client reads a frame in this step and has something to write
\* upstream for it
WritesForClient(c) ==
    /\ ReadsClient(c)
    /\ cIn'[c].type = "TEXT"
    /\ LET r == process_message_to_server(cIn'[c].data, system_message, voice_choice,
                                          tools, last_user_message)
       IN ~r.raised /\ NonEmpty(r.updated)

\* a handler returns in this step, for a call that has a call_id
HandlerReturns(c) ==
    /\ sCall'[c].state = "returned"
    /\ sCall[c].state # "returned" \/ ReadsUpstream(c)
    /\ "call_id" \in DOMAIN CallItem(sIn'[c])

\* a write to an upstream socket that is not open raises in the loop that
\* made it, and nothing is written
C22_Step ==
    \A c \in Conns :
        /\ (WritesForClient(c) /\ target_ws[c] # "open") =>
              (cpc'[c] = "raised" /\ cOut'[c] = <<>> /\ toUp'[c] = toUp[c])
        /\ (HandlerReturns(c) /\ target_ws[c] # "open") =>
              (spc'[c] = "raised" /\ sUp'[c] = <<>> /\ toUp'[c] = toUp[c])
        /\ cpc[c] = "raised" => cpc'[c] = "raised" /\ nC'[c] = nC[c]
        /\ spc[c] = "raised" => spc'[c] = "raised" /\ nS'[c] = nS[c]

\* a loop that raised ends the session: _forward_messages can exit, or has
C22_State ==
    \A c \in Conns :
        (cpc[c] = "raised" \/ spc[c] = "raised") =>
            \/ phase[c] = "relaying" /\ ENABLED forward_messages_exits(c)
            \/ phase[c] = "closing" /\ ENABLED websocket_handler_returns(c)
            \/ phase[c] = "closed"

\* C22: a write to the upstream socket that fails, by from_client forwarding
\* an event or by from_server injecting a function_call_output, raises out of
\* the loop that made it: the loop reads no further frame and the session
\* is torn down.
C22_UpstreamWriteFailureFatal == []C22_State /\ [][C22_Step]_vars

C22_Witness ==
    /\ sIn["A"] = Frame("TEXT", FunctionCall("search", ArgQuery, "call_1"))
    /\ sCall["A"].state = "returned"
    /\ sUp["A"] = <<>>
    /\ spc["A"] = "raised"
    /\ cpc["A"] = "wait"
    /\ phase["A"] = "closed"

\* the transitions of one session
Transitions ==
    { <<"idle", "connecting">>, <<"connecting", "relaying">>, <<"connecting", "closed">>,
      <<"relaying", "closing">>, <<"closing", "closed">> }

\* connection c reads a frame, writes to a socket or dispatches a tool
Relays(c) ==
    \/ ReadsClient(c)
    \/ ReadsUpstream(c)
    \/ toUp'[c] # toUp[c]
    \/ toCli'[c] # toCli[c]
    \/ sCall'[c] # sCall[c] /\ sCall'[c].state = "awaiting"
    \/ sCall'[c] # sCall[c] /\ sCall[c].state # "awaiting"

C23_Step ==
    \A c \in Conns :
        /\ phase'[c] # phase[c] => <<phase[c], phase'[c]>> \in Transitions
        /\ phase[c] \in {"idle", "connecting"} => ~Relays(c)
        /\ phase[c] = "closed" => ~Relays(c)
        /\ (phase[c] = "connecting" /\ phase'[c] = "closed") =>
              (target_ws'[c] = "none" /\ cpc'[c] = "idle" /\ spc'[c] = "idle")

C23_State ==
    \A c \in Conns :
        /\ phase[c] \in {"idle", "connecting"} =>
              /\ nC[c] = 0 /\ nS[c] = 0 /\ toUp[c] = <<>> /\ toCli[c] = <<>>
              /\ sCall[c] = NoCall /\ target_ws[c] = "none"
        /\ phase[c] = "closed" =>
              /\ ws[c] = "closed"
              /\ target_ws[c] \in {"none", "closed"}
              /\ \A msg \in ClientFrames : ~ENABLED from_client(c, msg)
              /\ \A msg \in ServerFrames : ~ENABLED from_server(c, msg)

\* C23: a session moves connecting -> relaying -> closing -> closed and in
\* no other way, except that a failed connect goes from connecting straight
\* to closed; before the upstream connection is up and after closed no frame
\* is read or written and no tool is dispatched.
C23_StateMachine == []C23_State /\ [][C23_Step]_vars

C23_Witness ==
    /\ phase["A"] = "closed"
    /\ spc["A"] = "raised"
    /\ cpc["A"] = "wait"
    /\ nC["A"] = 1
    /\ nS["A"] = 1
    /\ toUp["A"] = <<<<"client", 1>>>>

\* the tool names in the session.update from_client last wrote upstream
Advertised(c) ==
    LET listed == Get(Forwarded(c), "tools", <<>>)
    IN {listed[i].name : i \in 1..Len(listed)}

Rewrote(c) == IsSessionUpdate(cIn[c]) /\ cOut[c] # <<>>

\* a function call naming the tool finds it in the registry
Dispatchable(name) ==
    process_message_to_client(FunctionCall(name, ArgQuery, "call_1"),
                              tools, last_user_message).act = "call"

C24_Step ==
    /\ tools' = tools
    /\ \A c \in Conns :
           (Rewrote(c) /\ Rewrote(c)') => Advertised(c)' = Advertised(c)

C24_State ==
    /\ tools = attach_rag_tools(<<>>)
    /\ \A c \in Conns :
           Rewrote(c) =>
               /\ Advertised(c) = {"search", "report_grounding"}
               /\ \A name \in Advertised(c) : Dispatchable(name)
    /\ \A c \in Conns :
           sCall[c].state \in {"awaiting", "returned"} => sCall[c].tool \in {"search", "report_grounding"}

\* C24: no step of the relay changes the tool registry: every session.update
\* rewrite of a session advertises the same tool names, the ones registered
\* at construction, and a function call naming any of them finds its tool.
C24_RegistryReadOnly == []C24_State /\ [][C24_Step]_vars

C24_Witness ==
    /\ nC["A"] = 2
    /\ Rewrote("A")
    /\ Advertised("A") = {"search", "report_grounding"}
    /\ sCall["A"].tool = "search"
    /\ sCall["A"].state = "returned"
    /\ last_user_message = NONE
    /\ toUp["A"] = <<<<"client", 1>>, <<"tool", 1>>, <<"client", 2>>>>

\* a text frame whose payload json.loads accepts, object or not
IsJson(f) == f.type = "TEXT" /\ f.data.kind \in {"object", "nonobject"}

\* C25: with the upstream socket open, no client text frame that is valid
\* JSON ends from_client: after the frame the loop is back at its read.
C25_ClientJsonNeverFatal ==
    [][\A c \in Conns :
        (ReadsClient(c) /\ IsJson(cIn'[c]) /\ target_ws[c] = "open") =>
            cpc'[c] = "wait"]_vars

\* a function call that names a tool the registry does not have
NamesUnregistered(f) ==
    /\ IsFunctionCall(f)
    /\ "name" \in DOMAIN CallItem(f)
    /\ CallItem(f).name \notin Keys(tools)

\* C26: with both sockets open, an upstream text frame that is valid JSON
\* and is not a function call naming an unregistered tool does not end
\* from_server: after the frame the loop is back at its read, or waits for
\* the tool handler it called.
C26_OnlyUnknownToolFatal ==
    [][\A c \in Conns :
        (/\ ReadsUpstream(c)
         /\ IsJson(sIn'[c])
         /\ ~NamesUnregistered(sIn'[c])
         /\ ws[c] = "open"
         /\ target_ws[c] = "open") =>
            spc'[c] \in {"wait", "tool"}]_vars

\* from_server calls a tool handler for the frame it reads in this step
InvokesHandler(c) == ReadsUpstream(c) /\ sCall'[c].state \in {"awaiting", "returned", "raised"}

\* a function_call_output is written upstream in this step
Injects(c) == Len(toUp'[c]) = Len(toUp[c]) + 1 /\ toUp'[c][Len(toUp'[c])][1] = "tool"

\* C27: once the client socket is closed, no tool handler is invoked and no
\* function_call_output is written upstream for the session.
C27_NoToolAfterClientClosed ==
    [][\A c \in Conns :
        ws[c] = "closed" => (~InvokesHandler(c) /\ ~Injects(c))]_vars

\* the results the handler of a tool can return for args
HandlerResults(tool, args) ==
    {h.result : h \in {x \in {Target(tool, args)} \cup {Resume(tool, o) : o \in SearchOutcomes} :
                          x.step = "return"}}

\* C28: when a handler returned, the event written upstream is the
\* function_call_output carrying the result's text, the same whether the
\* result is tagged TO_SERVER or TO_CLIENT, it is written unless the write
\* raised, and nothing is delivered to the client for the call.
C28_RoutingIgnoresDirection ==
    \A c \in Conns :
        (NamesRegistered(sIn[c]) /\ sCall[c].state = "returned") =>
            /\ sCli[c] = <<>>
            /\ Count(toCli[c], <<"server", nS[c]>>) = 0
            /\ spc[c] # "raised" =>
                  \E r \in HandlerResults(Value(tools, sCall[c].tool), sCall[c].args) :
                      /\ r.destination \in Directions
                      /\ \A d \in Directions :
                            sUp[c] = <<FunctionCallOutput(CallItem(sIn[c]).call_id,
                                                          ToolResult(r.text, d))>>

C28_Witness ==
    /\ sCall["A"] = Call("report_grounding", Obj([sources |-> <<"bad id">>]), "returned")
    /\ sUp["A"] = <<FunctionCallOutput("call_2", ToolResult(Dict("sources", PyList(<<>>)), "TO_CLIENT"))>>
    /\ sCli["A"] = <<>>
    /\ toUp["A"] = <<<<"tool", 1>>>>
    /\ toCli["A"] = <<>>
    /\ ws["A"] = "open"

\* from_server of c is inside `await tool.target(args)`
ToolOutstanding(c) == spc[c] = "tool" /\ sCall[c].state = "awaiting"

\* while a handler is awaited from_client can take any next frame
C29_State ==
    \A c \in Conns :
        (ToolOutstanding(c) /\ cpc[c] = "wait" /\ ws[c] = "open" /\ nC[c] < MaxClientMsgs) =>
            \A msg \in CoreClientFrames : ENABLED from_client(c, msg)

\* a frame read while a handler is awaited is processed as any other, and
\* the upstream socket gets whole events, one per write
C29_Step ==
    \A c \in Conns :
        /\ (ToolOutstanding(c) /\ ReadsClient(c)) =>
              /\ spc'[c] = "tool" /\ sCall'[c] = sCall[c]
              /\ (WritesForClient(c) /\ target_ws[c] = "open") =>
                    toUp'[c] = Append(toUp[c], <<"client", nC'[c]>>)
              /\ UserTextOf(cIn'[c]) # NONE => last_user_message' = UserTextOf(cIn'[c])
        /\ toUp'[c] # toUp[c] =>
              \E w \in {<<"client", nC'[c]>>, <<"tool", nS'[c]>>} : toUp'[c] = Append(toUp[c], w)

\* C29: an awaited tool handler does not hold up from_client: client frames
\* are still read, rewritten, written upstream and recorded, so a client
\* event can reach upstream between a function call and its output; every
\* write upstream adds one whole event.
C29_ClientLoopNotBlocked == []C29_State /\ [][C29_Step]_vars

C29_Witness ==
    /\ sCall["A"] = Call("search", Obj([query |-> "q1"]), "returned")
    /\ last_user_message = "q2"
    /\ toUp["A"] = <<<<"client", 1>>, <<"client", 2>>, <<"tool", 1>>>>

\* a frame that is no text frame leaves everything but the record of the
\* read as it was, and the loop that read it at its read
C30_Step ==
    \A c \in Conns :
        /\ (ReadsClient(c) /\ cIn'[c].type # "TEXT") =>
              /\ cOut'[c] = <<>>
              /\ cpc'[c] = "wait"
              /\ UNCHANGED <<shared, phase, socks, serverLoop, logs>>
        /\ (ReadsUpstream(c) /\ sIn'[c].type # "TEXT") =>
              /\ sCli'[c] = <<>> /\ sUp'[c] = <<>> /\ sCall'[c] = NoCall
              /\ spc'[c] = "wait"
              /\ UNCHANGED <<shared, phase, socks, clientLoop, logs>>

\* after such a frame the loop can read the next one
C30_State ==
    \A c \in Conns :
        /\ (cIn[c].type = "BINARY" /\ cpc[c] = "wait" /\ ws[c] = "open" /\ nC[c] < MaxClientMsgs) =>
              \A msg \in CoreClientFrames : ENABLED from_client(c, msg)
        /\ (sIn[c].type = "BINARY" /\ spc[c] = "wait" /\ target_ws[c] = "open" /\ nS[c] < MaxServerMsgs) =>
              \A msg \in ServerFrames : ENABLED from_server(c, msg)

\* C30: a frame that is not a text frame, read from either socket, is not
\* forwarded, is not rewritten, dispatches no tool, changes neither the
\* shared object nor the session, and leaves the loop that read it running.
C30_OnlyTextRelayed == []C30_State /\ [][C30_Step]_vars

C30_Witness ==
    /\ cIn["A"].type = "BINARY"
    /\ sIn["A"].type = "BINARY"
    /\ nC["A"] = 1
    /\ nS["A"] = 1
    /\ cpc["A"] = "wait"
    /\ spc["A"] = "wait"
    /\ phase["A"] = "relaying"
    /\ toUp["A"] = <<>>
    /\ toCli["A"] = <<>>

\* the function_call_output of a search that was handed no query
MissingQuery(call_id) ==
    FunctionCallOutput(call_id, ToolResult(Dict("error", Str("Missing 'query'")), "TO_SERVER"))

\* C31: a search call dispatched while last_user_message is None or "" hands
\* the handler query "", not None and not the query of the raw arguments;
\* the handler then returns its missing-query error at once.
C31_AbsentUtteranceGivesEmptyQuery ==
    [][\A c \in Conns :
        (ReadsUpstream(c) /\ sCall'[c].tool = "search" /\ last_user_message \in {NONE, ""}) =>
            /\ sCall'[c].args.kind = "dict"
            /\ "query" \in DOMAIN sCall'[c].args.obj
            /\ sCall'[c].args.obj.query = ""
            /\ sCall'[c].state = "returned"
            /\ ("call_id" \in DOMAIN CallItem(sIn'[c]) /\ target_ws[c] = "open") =>
                  sUp'[c] = <<MissingQuery(CallItem(sIn'[c]).call_id)>>]_vars

C31_Witness ==
    /\ nC["A"] = 2
    /\ cIn["A"] = Frame("TEXT", AudioMsg)
    /\ lum_from = "A"
    /\ last_user_message = NONE
    /\ sIn["A"] = Frame("TEXT", FunctionCall("search", ArgQuery, "call_1"))
    /\ sCall["A"] = Call("search", Obj([query |-> ""]), "returned")
    /\ sUp["A"] = <<MissingQuery("call_1")>>
    /\ toUp["A"] = <<<<"client", 1>>, <<"client", 2>>, <<"tool", 1>>>>
====
